---------------------------- MODULE Spec2Model ----------------------------
(***************************************************************************)
(* A model of the credit-default notebooks.                                *)
(*                                                                         *)
(* Notebook 03 (model comparison): the Random Forest baseline cell, the    *)
(* GridSearchCV cell and the evaluation of the tuned forest.               *)
(* Notebook 02 (feature engineering and modelling): the Logistic           *)
(* Regression fit cell and its evaluation cell.                            *)
(*                                                                         *)
(* The notebook cells are sequences of scikit-learn calls.  Each call is   *)
(* modelled by what the called function does on its arguments.  Real       *)
(* numbers are exact rationals <<numerator, denominator>>; a score of a    *)
(* (configuration, fold) task is a natural number of score points.         *)
(*                                                                         *)
(* Three specifications share the variables:                               *)
(*   Spec       the grid search cell (grid_search.fit and its workers),    *)
(*   SpecEval   the evaluation cells (predict, metrics, prints),           *)
(*   SpecTrain  the Logistic Regression fit cell (construct, fit, predict) *)
(***************************************************************************)
EXTENDS Integers, Sequences, FiniteSets, TLC

VARIABLES
    \* ---- grid search cell ----
    shape,            \* lengths of the value lists of param_grid in this run
    scores,           \* task -> what fitting and scoring it yielded
    X_train, y_train, \* the training split (row identifiers, labels)
    pc,               \* position of the call grid_search.fit
    nextTask,         \* next task the pool dispatches
    running,          \* worker -> task it is fitting (0: idle)
    owner,            \* worker -> estimator instance it holds (-1: none)
    fitInput,         \* worker -> rows of X_train its fit reads
    out,              \* task slot -> collected outcome
    ndone,            \* number of tasks finished so far
    reordered,        \* history: a task finished while an earlier task was still running
    best_index_, best_score_, best_estimator_,
    table,            \* 0: any outcome per task; k > 0: the outcomes of score table k
    nfits,            \* task -> times it was fitted and scored
    nrefits,          \* times the best configuration was refitted
    \* ---- evaluation cells ----
    cell,             \* which evaluation cell runs
    y_test, proba,    \* test labels, predicted probability of class 1 per test row
    epc,              \* statement of the cell about to run
    estatus,          \* "running", "done", "error"
    y_pred, acc, auc, cm, report,
    printed,          \* what the cell has printed so far
    \* ---- logistic regression fit cell ----
    tshape,           \* shapes of the loaded tables
    converges,        \* whether lbfgs converges within max_iter
    tpc, model, warnings, t_pred,
    \* ---- two runs of the Random Forest baseline cell ----
    d_train, d_test,  \* the loaded splits: rows [x |-> feature, y |-> label]
    entropy,          \* run -> what the operating system's entropy source gives it
    d_pc,             \* run -> position in the cell
    d_seed,           \* run -> state the estimator's random generator starts from
    d_forest,         \* run -> the fitted trees
    d_proba,          \* run -> predicted probability level per test row
    d_metrics,        \* run -> the metrics of the run
    \* ---- notebook kernel ----
    k_cell,           \* the cell being executed, or "none"
    k_stmt,           \* index of its next statement
    k_runs,           \* cells executed so far
    bound,            \* data and result names bound in the kernel
    env,              \* instance name -> instance id, 0 when unbound
    heap,             \* the estimator instances, by id
    data,             \* data name -> rows or labels
    disk,             \* the pickled test split
    fit_inputs,       \* the rows every fitting step has taken
    test_reads        \* the operations that have read the test split

tunerVars == <<shape, scores, X_train, y_train, pc, nextTask, running, owner,
               fitInput, out, ndone, reordered, best_index_, best_score_, best_estimator_,
               table, nfits, nrefits>>
evalVars == <<cell, y_test, proba, epc, estatus, y_pred, acc, auc, cm, report, printed>>
trainVars == <<tshape, converges, tpc, model, warnings, t_pred>>
detVars == <<d_train, d_test, entropy, d_pc, d_seed, d_forest, d_proba, d_metrics>>
lifeVars == <<k_cell, k_stmt, k_runs, bound, env, heap, data, disk, fit_inputs, test_reads>>
vars == <<tunerVars, evalVars, trainVars, detVars, lifeVars>>

-----------------------------------------------------------------------------
(* Bounds of the model *)

MaxConfigs == 2    \* largest number of configurations of a grid
NumWorkers == 2    \* cores the pool uses under n_jobs = -1
NumTrainRows == 3   \* rows of the training split in the grid search

-----------------------------------------------------------------------------
(* The grid search cell *)

\* param_grid: 0 stands for max_depth = None
param_grid ==
    [ n_estimators     |-> <<100, 300>>,
      max_depth        |-> <<0, 10, 20>>,
      min_samples_leaf |-> <<1, 2, 5>> ]

cv == 3

\* n_jobs = -1: one worker per available core
Workers == 1..NumWorkers

\* The grids of a run: the value lists of param_grid cut to a prefix.
Shapes ==
    { s \in [ max_depth : 1..Len(param_grid.max_depth),
              min_samples_leaf : 1..Len(param_grid.min_samples_leaf),
              n_estimators : 1..Len(param_grid.n_estimators) ] :
        s.max_depth * s.min_samples_leaf * s.n_estimators <= MaxConfigs }

NumConfigs(s) == s.max_depth * s.min_samples_leaf * s.n_estimators

\* ParameterGrid: keys sorted by name, itertools.product over the value
\* lists, so the last key (n_estimators) varies fastest.
ParameterGrid(s) ==
    [ i \in 1..NumConfigs(s) |->
        LET k  == i - 1
            e  == k % s.n_estimators
            l  == (k \div s.n_estimators) % s.min_samples_leaf
            d  == k \div (s.n_estimators * s.min_samples_leaf)
        IN  [ max_depth        |-> param_grid.max_depth[d + 1],
              min_samples_leaf |-> param_grid.min_samples_leaf[l + 1],
              n_estimators     |-> param_grid.n_estimators[e + 1] ] ]

\* Tasks: product(candidate_params, folds), configuration-major.
NumTasks(s) == NumConfigs(s) * cv
TaskOf(c, f) == (c - 1) * cv + f
ConfigOf(t) == ((t - 1) \div cv) + 1
FoldOf(t) == ((t - 1) % cv) + 1

\* Outcome of one task: a score, or error_score = nan after a fit that threw.
Pending == [st |-> "pending", val |-> 0]
Failed == [st |-> "nan", val |-> 0]
Scored(v) == [st |-> "ok", val |-> v]
\* A fold score is one of two levels of score points.
ScorePoints == {0, 1}
Outcomes == {Failed} \cup {Scored(v) : v \in ScorePoints}

\* A score table: one fixed outcome per task, for runs on the whole grid.
Tables == {1, 2, 3}
\* Table 1 fails every fit; table k > 1 fails one fit of configuration k + 1
\* and scores every fold of the multiples of k at the top.
TableScore(k, t) ==
    IF k = 1 \/ (ConfigOf(t) = k + 1 /\ FoldOf(t) = 2) THEN Failed
    ELSE IF ConfigOf(t) % k = 0 THEN Scored(1)
    ELSE Scored(FoldOf(t) % 2)
PossibleOutcomes(k, t) == IF k = 0 THEN Outcomes ELSE {TableScore(k, t)}

\* The training split: row identifiers and labels.
TrainX == [i \in 1..NumTrainRows |-> i]
TrainY == [i \in 1..NumTrainRows |-> i % 2]

\* Rows the fit of fold f reads: all rows outside the validation fold.
FoldTrainRows(X, f) == { X[i] : i \in { j \in DOMAIN X : (j - 1) % cv # f - 1 } }


\* Exact rationals for the mean scores; st = "nan" is the float nan.
Rat(n, d) == [st |-> "ok", num |-> n, den |-> d]
NanRat == [st |-> "nan", num |-> 0, den |-> 1]
RatLess(a, b) == a.num * b.den < b.num * a.den
RatEq(a, b) == a.num * b.den = b.num * a.den

RECURSIVE SumVals(_, _, _)
SumVals(o, c, f) == IF f = 0 THEN 0 ELSE o[TaskOf(c, f)].val + SumVals(o, c, f - 1)

\* mean_test_score of configuration c: the average of its fold scores; one
\* nan fold score makes the average nan.
MeanTestScore(o, c) ==
    IF \E f \in 1..cv : o[TaskOf(c, f)].st # "ok"
    THEN NanRat
    ELSE Rat(SumVals(o, c, cv), cv)

\* The estimator instance a task fits: clone(base_estimator), a fresh
\* instance per task.  Instance 0 is the estimator given to GridSearchCV.
SharedEstimator(t) == 0
CloneOf(t) == t

\* Where the outcome of task t, the k-th to finish, lands in the collected
\* list: Parallel returns the outcomes in task order.
CompletionSlot(t, k) == k
ResultSlot(t, k) == t

\* nan_to_num(array_means, nan = nanmin(array_means) - 1): a nan mean is
\* replaced by a value below every other mean.
NanMin(means) ==
    CHOOSE m \in {means[i] : i \in {j \in DOMAIN means : means[j].st = "ok"}} :
        \A i \in DOMAIN means : means[i].st = "ok" => ~RatLess(means[i], m)
NanMax(means) ==
    CHOOSE m \in {means[i] : i \in {j \in DOMAIN means : means[j].st = "ok"}} :
        \A i \in DOMAIN means : means[i].st = "ok" => ~RatLess(m, means[i])
NanToNumAbove(m, means) ==
    IF m.st = "nan" THEN Rat(NanMax(means).num + NanMax(means).den, NanMax(means).den) ELSE m
NanToNum(m, means) ==
    IF m.st = "nan" THEN Rat(NanMin(means).num - NanMin(means).den, NanMin(means).den) ELSE m

\* rank_test_score: rankdata(-array_means, method = "min"); all ranks are 1
\* when every mean is nan.
RankTestScore(means) ==
    IF \A i \in DOMAIN means : means[i].st = "nan"
    THEN [i \in DOMAIN means |-> 1]
    ELSE LET a == [i \in DOMAIN means |-> NanToNum(means[i], means)]
         IN  [i \in DOMAIN means |->
                 1 + Cardinality({j \in DOMAIN means : RatLess(a[i], a[j])})]

\* best_index_ = rank_test_score.argmin(): the first index of the least rank.
ArgMinLast(r) ==
    CHOOSE i \in DOMAIN r :
        /\ \A j \in DOMAIN r : r[i] <= r[j]
        /\ \A j \in DOMAIN r : r[j] = r[i] => j <= i
ArgMin(r) ==
    CHOOSE i \in DOMAIN r :
        /\ \A j \in DOMAIN r : r[i] <= r[j]
        /\ \A j \in DOMAIN r : r[j] = r[i] => i <= j

\* What the search reports from a list of collected outcomes.
MeanScores(o, s) == [c \in 1..NumConfigs(s) |-> MeanTestScore(o, c)]
BestIndex(o, s) == ArgMin(RankTestScore(MeanScores(o, s)))
BestScore(o, s) == MeanScores(o, s)[BestIndex(o, s)]

NoEstimator == [fitted |-> FALSE, instance |-> 0, params |-> ParameterGrid(
                   [max_depth |-> 1, min_samples_leaf |-> 1, n_estimators |-> 1])[1],
                rows |-> {}]

TunerInit ==
    /\ shape \in Shapes
    /\ scores = [t \in 1..NumTasks(shape) |-> Pending]
    /\ X_train = TrainX
    /\ y_train = TrainY
    /\ pc = "searching"
    /\ nextTask = 1
    /\ running = [w \in Workers |-> 0]
    /\ owner = [w \in Workers |-> -1]
    /\ fitInput = [w \in Workers |-> {}]
    /\ out = [t \in 1..NumTasks(shape) |-> Pending]
    /\ ndone = 0
    /\ reordered = FALSE
    /\ best_index_ = 0
    /\ best_score_ = NanRat
    /\ best_estimator_ = NoEstimator
    /\ table = 0
    /\ nfits = [t \in 1..NumTasks(shape) |-> 0]
    /\ nrefits = 0

\* The whole grid of param_grid, with the outcomes of one score table.
FullShape ==
    [ max_depth        |-> Len(param_grid.max_depth),
      min_samples_leaf |-> Len(param_grid.min_samples_leaf),
      n_estimators     |-> Len(param_grid.n_estimators) ]

TunerInitFull ==
    /\ shape = FullShape
    /\ scores = [t \in 1..NumTasks(shape) |-> Pending]
    /\ X_train = TrainX
    /\ y_train = TrainY
    /\ pc = "searching"
    /\ nextTask = 1
    /\ running = [w \in Workers |-> 0]
    /\ owner = [w \in Workers |-> -1]
    /\ fitInput = [w \in Workers |-> {}]
    /\ out = [t \in 1..NumTasks(shape) |-> Pending]
    /\ ndone = 0
    /\ reordered = FALSE
    /\ best_index_ = 0
    /\ best_score_ = NanRat
    /\ best_estimator_ = NoEstimator
    /\ table \in Tables
    /\ nfits = [t \in 1..NumTasks(shape) |-> 0]
    /\ nrefits = 0

TunerIdle ==
    /\ shape = [max_depth |-> 1, min_samples_leaf |-> 1, n_estimators |-> 1]
    /\ scores = [t \in 1..cv |-> Failed]
    /\ X_train = TrainX
    /\ y_train = TrainY
    /\ pc = "idle"
    /\ nextTask = 1
    /\ running = [w \in Workers |-> 0]
    /\ owner = [w \in Workers |-> -1]
    /\ fitInput = [w \in Workers |-> {}]
    /\ out = [t \in 1..cv |-> Pending]
    /\ ndone = 0
    /\ reordered = FALSE
    /\ best_index_ = 0
    /\ best_score_ = NanRat
    /\ best_estimator_ = NoEstimator
    /\ table = 0
    /\ nfits = [t \in 1..cv |-> 0]
    /\ nrefits = 0

\* The pool hands the next task, in task order, to an idle worker (the
\* workers are identical processes: the first idle one stands for any),
\* which clones the estimator and takes the rows of the fold's training part.
Dispatch(w) ==
    /\ pc = "searching"
    /\ running[w] = 0
    /\ \A v \in Workers : v < w => running[v] # 0
    /\ nextTask <= NumTasks(shape)
    /\ running' = [running EXCEPT ![w] = nextTask]
    /\ owner' = [owner EXCEPT ![w] = CloneOf(nextTask)]
    /\ fitInput' = [fitInput EXCEPT ![w] = FoldTrainRows(X_train, FoldOf(nextTask))]
    /\ nextTask' = nextTask + 1
    /\ UNCHANGED <<shape, scores, X_train, y_train, pc, out, ndone, reordered,
                   best_index_, best_score_, best_estimator_>>
    /\ UNCHANGED <<evalVars, trainVars, detVars, lifeVars>>
    /\ UNCHANGED <<table, nfits, nrefits>>

\* A worker finishes its task (_fit_and_score): the fit and the scoring
\* yield the task's score, or the fit throws and error_score = nan is
\* recorded; the outcome is collected and the clone is dropped.
Complete(w) ==
    /\ pc = "searching"
    /\ running[w] # 0
    /\ \E o \in PossibleOutcomes(table, running[w]) :
          /\ scores' = [scores EXCEPT ![running[w]] = o]
          /\ out' = [out EXCEPT ![ResultSlot(running[w], ndone + 1)] = o]
    /\ ndone' = ndone + 1
    /\ reordered' = (reordered \/ \E v \in Workers : running[v] # 0 /\ running[v] < running[w])
    /\ running' = [running EXCEPT ![w] = 0]
    /\ owner' = [owner EXCEPT ![w] = -1]
    /\ fitInput' = [fitInput EXCEPT ![w] = {}]
    /\ UNCHANGED <<shape, X_train, y_train, pc, nextTask,
                   best_index_, best_score_, best_estimator_>>
    /\ UNCHANGED <<evalVars, trainVars, detVars, lifeVars>>
    /\ nfits' = [nfits EXCEPT ![running[w]] = @ + 1]
    /\ UNCHANGED <<table, nrefits>>

AllDispatched == nextTask > NumTasks(shape)
AllCollected ==
    /\ nextTask > NumTasks(shape)
    /\ \A w \in Workers : running[w] = 0

\* Every fit failed: fit raises ValueError ("All the ... fits failed").
AllFitsFailed ==
    /\ pc = "searching"
    /\ AllCollected
    /\ \A t \in DOMAIN out : out[t].st # "ok"
    /\ pc' = "raised"
    /\ UNCHANGED <<shape, scores, X_train, y_train, nextTask, running, owner,
                   fitInput, out, ndone, reordered, best_index_, best_score_, best_estimator_>>
    /\ UNCHANGED <<evalVars, trainVars, detVars, lifeVars>>
    /\ UNCHANGED <<table, nfits, nrefits>>

\* The parallel call has returned every outcome: cv_results_ is formed and
\* best_index_, best_score_ are set.
SelectBest ==
    /\ pc = "searching"
    /\ AllCollected
    /\ \E t \in DOMAIN out : out[t].st = "ok"
    /\ best_index_' = BestIndex(out, shape)
    /\ best_score_' = BestScore(out, shape)
    /\ pc' = "selected"
    /\ UNCHANGED <<shape, scores, X_train, y_train, nextTask, running, owner,
                   fitInput, out, ndone, reordered, best_estimator_>>
    /\ UNCHANGED <<evalVars, trainVars, detVars, lifeVars>>
    /\ UNCHANGED <<table, nfits, nrefits>>

\* refit = True: a clone with best_params_ is fitted on the whole training
\* split, and grid_search.fit returns.
Refit ==
    /\ pc = "selected"
    /\ best_estimator_' =
          [fitted |-> TRUE,
           instance |-> NumTasks(shape) + 1,
           params |-> ParameterGrid(shape)[best_index_],
           rows |-> {X_train[i] : i \in DOMAIN X_train}]
    /\ pc' = "returned"
    /\ UNCHANGED <<shape, scores, X_train, y_train, nextTask, running, owner,
                   fitInput, out, ndone, reordered, best_index_, best_score_>>
    /\ UNCHANGED <<evalVars, trainVars, detVars, lifeVars>>
    /\ nrefits' = nrefits + 1
    /\ UNCHANGED <<table, nfits>>

TunerNext ==
    \/ \E w \in Workers : Dispatch(w)
    \/ \E w \in Workers : Complete(w)
    \/ AllFitsFailed
    \/ SelectBest
    \/ Refit

best_params_ == ParameterGrid(shape)[best_index_]

-----------------------------------------------------------------------------
(* The evaluation cells *)

MaxTest == 3   \* largest number of rows of the test split
ProbLevels == 2   \* predicted probabilities are k / ProbLevels, k in 0..ProbLevels

NoValue == [st |-> "none", num |-> 0, den |-> 1]
ErrorValue == [st |-> "error", num |-> 0, den |-> 1]

\* The statements of the two kinds of evaluation cell.
\*   forest:   predict, accuracy_score, roc_auc_score, three prints (the
\*             last one computes classification_report in its argument);
\*   logistic: predict, accuracy_score, confusion_matrix,
\*             classification_report, three prints.
Program(c) ==
    IF c = "forest"
    THEN <<"predict", "accuracy", "auc", "print_acc", "print_auc", "print_report">>
    ELSE <<"predict", "accuracy", "cm", "report", "print_acc", "print_cm", "print_report">>

Count(S) == Cardinality(S)
Rows(v) == DOMAIN v

\* predict: the class with the larger predicted probability, class 0 on a tie.
PredictLabel(p) == IF 2 * p > ProbLevels THEN 1 ELSE 0
predict(p) == [i \in DOMAIN p |-> PredictLabel(p[i])]

\* accuracy_score: the mean of the indicator y_true == y_pred.
error_rate(yt, yp) == Rat(Count({i \in Rows(yt) : yt[i] # yp[i]}), Len(yt))
accuracy_score(yt, yp) == Rat(Count({i \in Rows(yt) : yt[i] = yp[i]}), Len(yt))

\* unique_labels(y_true, y_pred): the labels that occur in either vector.
unique_labels(yt, yp) == {yt[i] : i \in Rows(yt)} \cup {yp[i] : i \in Rows(yp)}

\* confusion_matrix with labels = None: one row and one column per label of
\* unique_labels; entry [i][j] counts the rows of true class i predicted j.
confusion_matrix_T(yt, yp) ==
    [i \in unique_labels(yt, yp) |->
        [j \in unique_labels(yt, yp) |->
            Count({k \in Rows(yt) : yt[k] = j /\ yp[k] = i})]]
confusion_matrix(yt, yp) ==
    [i \in unique_labels(yt, yp) |->
        [j \in unique_labels(yt, yp) |->
            Count({k \in Rows(yt) : yt[k] = i /\ yp[k] = j})]]

\* classification_report: per label precision, recall, f1 and support; a
\* ratio with denominator 0 is reported as 0 (zero_division).
Ratio(n, d) == IF d = 0 THEN Rat(0, 1) ELSE Rat(n, d)
classification_report(yt, yp) ==
    [l \in unique_labels(yt, yp) |->
        LET tp   == Count({k \in Rows(yt) : yt[k] = l /\ yp[k] = l})
            npr  == Count({k \in Rows(yt) : yp[k] = l})
            supp == Count({k \in Rows(yt) : yt[k] = l})
        IN  [precision |-> Ratio(tp, npr),
             recall    |-> Ratio(tp, supp),
             f1        |-> Ratio(2 * tp, npr + supp),
             support   |-> supp]]

\* roc_curve: one point per distinct score, from the highest down; tps and
\* fps are the cumulative counts of class 1 and class 0 rows with a score
\* at or above the threshold.
TpsStrict(yt, p, v) == Count({i \in Rows(yt) : yt[i] = 1 /\ p[i] > v})
Tps(yt, p, v) == Count({i \in Rows(yt) : yt[i] = 1 /\ p[i] >= v})
Fps(yt, p, v) == Count({i \in Rows(yt) : yt[i] = 0 /\ p[i] >= v})

\* Twice the area under the curve in units of 1 / (P * N), by the
\* trapezoidal rule over consecutive thresholds k+1 -> k.
RECURSIVE Trapezoids(_, _, _)
Trapezoids(yt, p, v) ==
    IF v < 0 THEN 0
    ELSE (Fps(yt, p, v) - Fps(yt, p, v + 1)) * (Tps(yt, p, v) + Tps(yt, p, v + 1))
         + Trapezoids(yt, p, v - 1)

\* roc_auc_score: ValueError when y_true holds a single class, else the
\* area under the ROC curve.
roc_auc_score_lenient(yt, p) ==
    LET P == Count({i \in Rows(yt) : yt[i] = 1})
        N == Count({i \in Rows(yt) : yt[i] = 0})
    IN  IF P = 0 \/ N = 0 THEN Rat(1, 2)
        ELSE Rat(Trapezoids(yt, p, ProbLevels), 2 * P * N)
roc_auc_score(yt, p) ==
    LET P == Count({i \in Rows(yt) : yt[i] = 1})
        N == Count({i \in Rows(yt) : yt[i] = 0})
    IN  IF P = 0 \/ N = 0 THEN ErrorValue
        ELSE Rat(Trapezoids(yt, p, ProbLevels), 2 * P * N)

NoMatrix == [i \in {} |-> 0]

EvalInit ==
    /\ cell \in {"forest", "logistic"}
    /\ \E n \in 1..MaxTest :
          /\ y_test \in [1..n -> {0, 1}]
          /\ proba \in [1..n -> 0..ProbLevels]
    /\ epc = 1
    /\ estatus = "running"
    /\ y_pred = <<>>
    /\ acc = NoValue
    /\ auc = NoValue
    /\ cm = NoMatrix
    /\ report = NoMatrix
    /\ printed = {}

EvalIdle ==
    /\ cell = "none"
    /\ y_test = <<>>
    /\ proba = <<>>
    /\ epc = 1
    /\ estatus = "idle"
    /\ y_pred = <<>>
    /\ acc = NoValue
    /\ auc = NoValue
    /\ cm = NoMatrix
    /\ report = NoMatrix
    /\ printed = {}

At(stmt) ==
    /\ estatus = "running"
    /\ epc <= Len(Program(cell))
    /\ Program(cell)[epc] = stmt

\* After a statement: the next one, or the end of the cell.
Advance ==
    /\ epc' = epc + 1
    /\ estatus' = IF epc = Len(Program(cell)) THEN "done" ELSE "running"

Predict ==
    /\ At("predict")
    /\ y_pred' = predict(proba)
    /\ Advance
    /\ UNCHANGED <<cell, y_test, proba, acc, auc, cm, report, printed>>
    /\ UNCHANGED <<tunerVars, trainVars, detVars, lifeVars>>

AccuracyScore ==
    /\ At("accuracy")
    /\ acc' = accuracy_score(y_test, y_pred)
    /\ Advance
    /\ UNCHANGED <<cell, y_test, proba, y_pred, auc, cm, report, printed>>
    /\ UNCHANGED <<tunerVars, trainVars, detVars, lifeVars>>

\* The exception of roc_auc_score is not caught: the cell stops there.
RocAucScore ==
    /\ At("auc")
    /\ auc' = roc_auc_score(y_test, proba)
    /\ IF roc_auc_score(y_test, proba).st = "error"
       THEN epc' = epc /\ estatus' = "error"
       ELSE Advance
    /\ UNCHANGED <<cell, y_test, proba, y_pred, acc, cm, report, printed>>
    /\ UNCHANGED <<tunerVars, trainVars, detVars, lifeVars>>

ConfusionMatrix ==
    /\ At("cm")
    /\ cm' = confusion_matrix(y_test, y_pred)
    /\ Advance
    /\ UNCHANGED <<cell, y_test, proba, y_pred, acc, auc, report, printed>>
    /\ UNCHANGED <<tunerVars, trainVars, detVars, lifeVars>>

ClassificationReport ==
    /\ At("report")
    /\ report' = classification_report(y_test, y_pred)
    /\ Advance
    /\ UNCHANGED <<cell, y_test, proba, y_pred, acc, auc, cm, printed>>
    /\ UNCHANGED <<tunerVars, trainVars, detVars, lifeVars>>

PrintAccuracy ==
    /\ At("print_acc")
    /\ printed' = printed \cup {"accuracy"}
    /\ Advance
    /\ UNCHANGED <<cell, y_test, proba, y_pred, acc, auc, cm, report>>
    /\ UNCHANGED <<tunerVars, trainVars, detVars, lifeVars>>

PrintAuc ==
    /\ At("print_auc")
    /\ printed' = printed \cup {"auc"}
    /\ Advance
    /\ UNCHANGED <<cell, y_test, proba, y_pred, acc, auc, cm, report>>
    /\ UNCHANGED <<tunerVars, trainVars, detVars, lifeVars>>

PrintConfusionMatrix ==
    /\ At("print_cm")
    /\ printed' = printed \cup {"confusion_matrix"}
    /\ Advance
    /\ UNCHANGED <<cell, y_test, proba, y_pred, acc, auc, cm, report>>
    /\ UNCHANGED <<tunerVars, trainVars, detVars, lifeVars>>

PrintReport ==
    /\ At("print_report")
    /\ report' = IF cell = "forest" THEN classification_report(y_test, y_pred) ELSE report
    /\ printed' = printed \cup {"report"}
    /\ Advance
    /\ UNCHANGED <<cell, y_test, proba, y_pred, acc, auc, cm>>
    /\ UNCHANGED <<tunerVars, trainVars, detVars, lifeVars>>

EvalNext ==
    \/ Predict
    \/ AccuracyScore
    \/ RocAucScore
    \/ ConfusionMatrix
    \/ ClassificationReport
    \/ PrintAccuracy
    \/ PrintAuc
    \/ PrintConfusionMatrix
    \/ PrintReport

-----------------------------------------------------------------------------
(* The Logistic Regression fit cell *)

MaxRows == 3   \* largest row count of a loaded table
MaxCols == 3   \* largest column count of a loaded table

Unfitted == [fitted |-> FALSE, n_features_in_ |-> 0]

\* check_X_y in fit: X and y must have the same number of samples.
FitAccepts(s) == s.train_rows = s.train_labels

\* lbfgs stopping at max_iter: ConvergenceWarning, the coefficients reached
\* so far are kept.
NonConvergenceFatal(conv) == conv
FitCompletes(conv) == TRUE

\* predict validates X against n_features_in_ of the fitted model.
PredictAccepts(m, s) == s.test_cols = m.n_features_in_

TrainInit ==
    /\ tshape \in [train_rows : 1..MaxRows, train_labels : 1..MaxRows,
                   train_cols : 1..MaxCols, test_cols : 1..MaxCols]
    /\ converges \in BOOLEAN
    /\ tpc = "start"
    /\ model = Unfitted
    /\ warnings = {}
    /\ t_pred = "none"

TrainIdle ==
    /\ tshape = [train_rows |-> 1, train_labels |-> 1, train_cols |-> 1, test_cols |-> 1]
    /\ converges = TRUE
    /\ tpc = "idle"
    /\ model = Unfitted
    /\ warnings = {}
    /\ t_pred = "none"

\* model = LogisticRegression(max_iter=1000, random_state=42)
Construct ==
    /\ tpc = "start"
    /\ tpc' = "constructed"
    /\ model' = Unfitted
    /\ UNCHANGED <<tshape, converges, warnings, t_pred>>
    /\ UNCHANGED <<tunerVars, evalVars, detVars, lifeVars>>

\* model.fit(X_train, y_train)
Fit ==
    /\ tpc = "constructed"
    /\ IF FitAccepts(tshape) /\ FitCompletes(converges)
       THEN /\ model' = [fitted |-> TRUE, n_features_in_ |-> tshape.train_cols]
            /\ warnings' = IF converges THEN warnings
                           ELSE warnings \cup {"ConvergenceWarning"}
            /\ tpc' = "fitted"
       ELSE /\ tpc' = "aborted"
            /\ UNCHANGED <<model, warnings>>
    /\ UNCHANGED <<tshape, converges, t_pred>>
    /\ UNCHANGED <<tunerVars, evalVars, detVars, lifeVars>>

\* y_pred = model.predict(X_test)
PredictTest ==
    /\ tpc = "fitted"
    /\ IF PredictAccepts(model, tshape)
       THEN tpc' = "predicted" /\ t_pred' = "labels"
       ELSE tpc' = "aborted" /\ UNCHANGED t_pred
    /\ UNCHANGED <<tshape, converges, model, warnings>>
    /\ UNCHANGED <<tunerVars, evalVars, detVars, lifeVars>>

TrainNext ==
    \/ Construct
    \/ Fit
    \/ PredictTest

-----------------------------------------------------------------------------
(* Two independent runs of the Random Forest baseline cell on the same data *)

MaxEntropy == 1   \* the entropy source gives a value in 0..MaxEntropy

random_state == 42

Runs == {1, 2}

\* The pseudo-random generators, linear congruential steps on 0..30: the
\* forest's generator, and the generator of a tree seeded by the forest.
Rand(s) == (11 * s + 7) % 31
RECURSIVE RandN(_, _)
RandN(s, k) == IF k = 0 THEN s ELSE RandN(Rand(s), k - 1)
TreeRand(s) == (3 * s + 1) % 31
RECURSIVE TreeRandN(_, _)
TreeRandN(s, j) == IF j = 0 THEN s ELSE TreeRandN(TreeRand(s), j - 1)

\* check_random_state(random_state): an integer seeds the generator with
\* that integer; the entropy source is used only when random_state is None.
SeedFromEntropy(rs, ent) == ent
SeedOf(rs, ent) == rs % 31

\* The bootstrap sample of tree k: the tree's own generator is seeded with
\* the k-th draw of the forest's generator and draws one row index per row.
Bootstrap(seed, k, n) == [j \in 1..n |-> (TreeRandN(RandN(seed, k), j) % n) + 1]

\* A tree of the forest, fitted on its bootstrap sample of the training
\* rows: for a feature value it votes for the class that is more frequent
\* among the sampled rows with that value, else for the more frequent class
\* of the whole sample, else for class 0.
Ones(train, b, S) == Count({j \in S : train[b[j]].y = 1})
FitTree(train, b) ==
    [v \in {0, 1} |->
        LET S == {j \in DOMAIN b : train[b[j]].x = v}
            A == DOMAIN b
        IN  IF 2 * Ones(train, b, S) > Count(S) THEN 1
            ELSE IF 2 * Ones(train, b, S) < Count(S) THEN 0
            ELSE IF 2 * Ones(train, b, A) > Count(A) THEN 1 ELSE 0]

\* rf.fit(X_train, y_train): a forest of ProbLevels trees.
FitForest(train, seed) ==
    [k \in 1..ProbLevels |-> FitTree(train, Bootstrap(seed, k, Len(train)))]

\* rf.predict_proba(X_test)[:, 1] in units of 1 / ProbLevels: the number of
\* trees that vote for class 1.
predict_proba(forest, test) ==
    [i \in DOMAIN test |-> Count({k \in DOMAIN forest : forest[k][test[i].x] = 1})]

Labels(rows) == [i \in DOMAIN rows |-> rows[i].y]

NoMetrics == [accuracy |-> NoValue, auc |-> NoValue, cm |-> NoMatrix, report |-> NoMatrix]

DataRows == [x : {0, 1}, y : {0, 1}]

DetInit ==
    /\ d_train \in [1..NumTrainRows -> DataRows]
    /\ \E ys \in [1..2 -> {0, 1}] :
          d_test = [i \in 1..2 |-> [x |-> i - 1, y |-> ys[i]]]
    /\ entropy \in [Runs -> 0..MaxEntropy]
    /\ d_pc = [r \in Runs |-> "start"]
    /\ d_seed = [r \in Runs |-> 0]
    /\ d_forest = [r \in Runs |-> <<>>]
    /\ d_proba = [r \in Runs |-> <<>>]
    /\ d_metrics = [r \in Runs |-> NoMetrics]

DetIdle ==
    /\ d_train = <<>>
    /\ d_test = <<>>
    /\ entropy = [r \in Runs |-> 0]
    /\ d_pc = [r \in Runs |-> "idle"]
    /\ d_seed = [r \in Runs |-> 0]
    /\ d_forest = [r \in Runs |-> <<>>]
    /\ d_proba = [r \in Runs |-> <<>>]
    /\ d_metrics = [r \in Runs |-> NoMetrics]

\* rf = RandomForestClassifier(random_state=42)
DetConstruct(r) ==
    /\ d_pc[r] = "start"
    /\ d_seed' = [d_seed EXCEPT ![r] = SeedOf(random_state, entropy[r])]
    /\ d_pc' = [d_pc EXCEPT ![r] = "constructed"]
    /\ UNCHANGED <<d_train, d_test, entropy, d_forest, d_proba, d_metrics>>
    /\ UNCHANGED <<tunerVars, evalVars, trainVars, lifeVars>>

\* rf.fit(X_train, y_train)
DetFit(r) ==
    /\ d_pc[r] = "constructed"
    /\ d_forest' = [d_forest EXCEPT ![r] = FitForest(d_train, d_seed[r])]
    /\ d_pc' = [d_pc EXCEPT ![r] = "fitted"]
    /\ UNCHANGED <<d_train, d_test, entropy, d_seed, d_proba, d_metrics>>
    /\ UNCHANGED <<tunerVars, evalVars, trainVars, lifeVars>>

\* y_pred_rf = rf.predict(X_test) and rf.predict_proba(X_test)[:, 1]
DetPredict(r) ==
    /\ d_pc[r] = "fitted"
    /\ d_proba' = [d_proba EXCEPT ![r] = predict_proba(d_forest[r], d_test)]
    /\ d_pc' = [d_pc EXCEPT ![r] = "predicted"]
    /\ UNCHANGED <<d_train, d_test, entropy, d_seed, d_forest, d_metrics>>
    /\ UNCHANGED <<tunerVars, evalVars, trainVars, lifeVars>>

\* The Evaluator: accuracy, AUC, then the confusion matrix and the report;
\* an AUC that raises ends the evaluation there.
Evaluate(yt, p) ==
    IF roc_auc_score(yt, p).st = "error"
    THEN [accuracy |-> accuracy_score(yt, predict(p)),
          auc      |-> ErrorValue,
          cm       |-> NoMatrix,
          report   |-> NoMatrix]
    ELSE [accuracy |-> accuracy_score(yt, predict(p)),
          auc      |-> roc_auc_score(yt, p),
          cm       |-> confusion_matrix(yt, predict(p)),
          report   |-> classification_report(yt, predict(p))]

DetEvaluate(r) ==
    /\ d_pc[r] = "predicted"
    /\ d_metrics' = [d_metrics EXCEPT ![r] = Evaluate(Labels(d_test), d_proba[r])]
    /\ d_pc' = [d_pc EXCEPT ![r] =
                  IF Evaluate(Labels(d_test), d_proba[r]).auc.st = "error"
                  THEN "aborted" ELSE "evaluated"]
    /\ UNCHANGED <<d_train, d_test, entropy, d_seed, d_forest, d_proba>>
    /\ UNCHANGED <<tunerVars, evalVars, trainVars, lifeVars>>

DetNext ==
    \/ \E r \in Runs : DetConstruct(r)
    \/ \E r \in Runs : DetFit(r)
    \/ \E r \in Runs : DetPredict(r)
    \/ \E r \in Runs : DetEvaluate(r)

-----------------------------------------------------------------------------
(* The notebook kernel: cells run in any order, names, estimator instances *)

MaxCellRuns == 4   \* cell executions in one kernel session

Cells == {"load", "rf", "grid", "best", "xgb", "load_lr", "lr", "lr_eval", "improved"}
ModelNames == {"rf", "best_rf", "xgb", "model", "model_improved"}
InstanceNames == ModelNames \cup {"best_estimator_", "scaler"}
DataNames == {"X_train", "y_train", "X_test", "y_test", "X_train_scaled", "X_test_scaled"}
TestNames == {"X_test", "y_test", "X_test_scaled"}

\* The pickled splits: the test rows have identifiers of their own.
TrainRows == {TrainX[i] : i \in DOMAIN TrainX}
TestX == <<NumTrainRows + 1, NumTrainRows + 2>>
TestRows == {TestX[i] : i \in DOMAIN TestX}
TestLabels == {<<0, 1>>, <<1, 1>>}

Stmt(o, n, xs, ys, res, l) ==
    [op |-> o, name |-> n, x |-> xs, y |-> ys, out |-> res, line |-> l]

LoadCell == << Stmt("load", "", "", "", "", 33) >>
RfCell ==
    << Stmt("construct", "rf", "", "", "", 76),
       Stmt("fit", "rf", "X_train", "y_train", "", 77),
       Stmt("predict", "rf", "X_test", "", "y_pred_rf", 78),
       Stmt("metric", "accuracy_score", "y_pred_rf", "y_test", "", 80),
       Stmt("proba_auc", "rf", "X_test", "y_test", "", 81),
       Stmt("metric", "classification_report", "y_pred_rf", "y_test", "", 85) >>
GridCell ==
    << Stmt("construct_search", "grid_search", "", "", "", 155),
       Stmt("search_fit", "grid_search", "X_train", "y_train", "", 163),
       Stmt("print_best", "grid_search", "", "", "", 165) >>
BestCell ==
    << Stmt("alias", "best_rf", "", "", "", 210),
       Stmt("predict", "best_rf", "X_test", "", "y_pred_best_rf", 211),
       Stmt("metric", "accuracy_score", "y_pred_best_rf", "y_test", "", 213),
       Stmt("proba_auc", "best_rf", "X_test", "y_test", "", 214),
       Stmt("metric", "classification_report", "y_pred_best_rf", "y_test", "", 218) >>
XgbCell ==
    << Stmt("construct", "xgb", "", "", "", 295),
       Stmt("fit", "xgb", "X_train", "y_train", "", 296),
       Stmt("predict", "xgb", "X_test", "", "y_pred_xgb", 297),
       Stmt("metric", "accuracy_score", "y_pred_xgb", "y_test", "", 299),
       Stmt("proba_auc", "xgb", "X_test", "y_test", "", 300),
       Stmt("metric", "classification_report", "y_pred_xgb", "y_test", "", 304) >>
LoadLrCell ==
    << Stmt("load", "", "", "", "", 416),
       Stmt("shapes", "print", "X_test", "y_test", "", 421) >>
LrCell ==
    << Stmt("construct", "model", "", "", "", 472),
       Stmt("fit", "model", "X_train", "y_train", "", 475),
       Stmt("predict", "model", "X_test", "", "y_pred", 478) >>
LrEvalCell ==
    << Stmt("metric", "accuracy_score", "y_pred", "y_test", "", 512),
       Stmt("metric", "confusion_matrix", "y_pred", "y_test", "", 513),
       Stmt("metric", "classification_report", "y_pred", "y_test", "", 514) >>
ImprovedCell ==
    << Stmt("construct_scaler", "scaler", "", "", "", 575),
       Stmt("fit_transform", "scaler", "X_train", "", "X_train_scaled", 576),
       Stmt("transform", "scaler", "X_test", "", "X_test_scaled", 577),
       Stmt("construct", "model_improved", "", "", "", 580),
       Stmt("fit", "model_improved", "X_train_scaled", "y_train", "", 581),
       Stmt("predict", "model_improved", "X_test_scaled", "", "y_pred_improved", 582),
       Stmt("metric", "accuracy_score", "y_pred_improved", "y_test", "", 584),
       Stmt("metric", "confusion_matrix", "y_pred_improved", "y_test", "", 585),
       Stmt("metric", "classification_report", "y_pred_improved", "y_test", "", 586) >>

\* The Logistic Regression cell with its prediction moved above the fit.
QueryBeforeFit(c) ==
    CASE c = "load" -> LoadCell
      [] c = "rf" -> RfCell
      [] c = "grid" -> GridCell
      [] c = "best" -> BestCell
      [] c = "xgb" -> XgbCell
      [] c = "load_lr" -> LoadLrCell
      [] c = "lr" -> << LrCell[1], LrCell[3], LrCell[2] >>
      [] c = "lr_eval" -> LrEvalCell
      [] c = "improved" -> ImprovedCell

LifeProgram(c) ==
    CASE c = "load" -> LoadCell
      [] c = "rf" -> RfCell
      [] c = "grid" -> GridCell
      [] c = "best" -> BestCell
      [] c = "xgb" -> XgbCell
      [] c = "load_lr" -> LoadLrCell
      [] c = "lr" -> LrCell
      [] c = "lr_eval" -> LrEvalCell
      [] c = "improved" -> ImprovedCell

\* The configuration a constructor call passes.
Constructor(name) ==
    CASE name = "rf" ->
           [cls |-> "RandomForestClassifier", base |-> "random_state=42"]
      [] name = "xgb" ->
           [cls |-> "XGBClassifier",
            base |-> "random_state=42, use_label_encoder=False, eval_metric=logloss"]
      [] name = "model" ->
           [cls |-> "LogisticRegression", base |-> "max_iter=1000, random_state=42"]
      [] name = "model_improved" ->
           [cls |-> "LogisticRegression",
            base |-> "max_iter=2000, solver=liblinear, random_state=42"]
      [] name = "scaler" ->
           [cls |-> "StandardScaler", base |-> ""]

\* What a fit learns from its input, and what a fresh instance holds.
NoLearned == [rows |-> {}, ones |-> 0]
Learn(X, y) ==
    [rows |-> {X[i] : i \in DOMAIN X},
     ones |-> Cardinality({i \in DOMAIN y : y[i] = 1})]

\* The data argument of a fitting statement; the variant hands the scaler
\* the test split.
FitArgLeaky(s) == IF s.op = "fit_transform" THEN "X_test" ELSE s.x
FitArg(s) == s.x

\* A fresh instance; loaded records whether the training split was bound
\* when it was constructed.
NewInstance(cfg, grid) ==
    [cls |-> cfg.cls, params |-> [base |-> cfg.base, grid |-> grid],
     fits |-> 0, learned |-> NoLearned, loaded |-> "X_train" \in bound,
     log |-> << [op |-> "construct", learned |-> NoLearned] >>]

Fitted(inst, learned) ==
    [inst EXCEPT !.fits = @ + 1, !.learned = learned,
                 !.log = Append(@, [op |-> "fit", learned |-> learned])]

\* A query reads the learned parameters and leaves them as they are.
Queried(inst, op) ==
    [inst EXCEPT !.log = Append(@, [op |-> op, learned |-> inst.learned])]

\* Configurations the search may select, as indexes of the grid.
BestChoices == {1, NumConfigs(FullShape)}

OneClass(y) == \A i, j \in DOMAIN y : y[i] = y[j]

IsBound(n) == IF n \in InstanceNames THEN env[n] # 0 ELSE n \in bound

\* The names a statement reads; an unbound one raises NameError (or
\* AttributeError for best_estimator_ of a search that has not returned).
Needs(s) ==
    CASE s.op = "fit" -> {s.name, FitArg(s), s.y}
      [] s.op = "predict" -> {s.name, s.x}
      [] s.op = "proba_auc" -> {s.name, s.x, s.y}
      [] s.op = "metric" -> {s.x, s.y}
      [] s.op = "shapes" -> {"X_train", "X_test", "y_train", "y_test"}
      [] s.op = "search_fit" -> {"grid_search", s.x, s.y}
      [] s.op = "print_best" -> {"grid_search", "best_estimator_"}
      [] s.op = "alias" -> {"grid_search", "best_estimator_"}
      [] s.op = "fit_transform" -> {s.name, FitArg(s)}
      [] s.op = "transform" -> {s.name, s.x}
      [] OTHER -> {}

Cur == LifeProgram(k_cell)[k_stmt]
Ready(op) ==
    /\ k_cell # "none"
    /\ Cur.op = op
    /\ \A n \in Needs(Cur) : IsBound(n)

StepOn ==
    IF k_stmt = Len(LifeProgram(k_cell))
    THEN k_cell' = "none" /\ k_stmt' = 0
    ELSE k_stmt' = k_stmt + 1 /\ UNCHANGED k_cell
Abort == k_cell' = "none" /\ k_stmt' = 0

ReadBy(reader, names) == {[by |-> reader, name |-> n] : n \in names \cap TestNames}
RowsOf(n) == {data[n][i] : i \in DOMAIN data[n]}

LifeInit ==
    /\ k_cell = "none"
    /\ k_stmt = 0
    /\ k_runs = 0
    /\ bound = {}
    /\ env = [n \in InstanceNames |-> 0]
    /\ heap = << >>
    /\ data = [n \in DataNames |-> << >>]
    /\ disk \in {[X_test |-> TestX, y_test |-> l] : l \in TestLabels}
    /\ fit_inputs = {}
    /\ test_reads = {}

LifeIdle ==
    /\ k_cell = "none"
    /\ k_stmt = 0
    /\ k_runs = MaxCellRuns
    /\ bound = {}
    /\ env = [n \in InstanceNames |-> 0]
    /\ heap = << >>
    /\ data = [n \in DataNames |-> << >>]
    /\ disk = [X_test |-> TestX, y_test |-> <<0, 1>>]
    /\ fit_inputs = {}
    /\ test_reads = {}

OtherVars == <<tunerVars, evalVars, trainVars, detVars>>

\* The user runs a cell.
RunCell(c) ==
    /\ k_cell = "none"
    /\ k_runs < MaxCellRuns
    /\ k_cell' = c
    /\ k_stmt' = 1
    /\ k_runs' = k_runs + 1
    /\ UNCHANGED <<bound, env, heap, data, disk, fit_inputs, test_reads>>
    /\ UNCHANGED OtherVars

\* A statement reads a name that is not bound: the cell stops.
NameError ==
    /\ k_cell # "none"
    /\ \E n \in Needs(Cur) : ~IsBound(n)
    /\ Abort
    /\ UNCHANGED <<k_runs, bound, env, heap, data, disk, fit_inputs, test_reads>>
    /\ UNCHANGED OtherVars

\* joblib.load of the four pickles.
Load ==
    /\ Ready("load")
    /\ bound' = bound \cup {"X_train", "y_train", "X_test", "y_test"}
    /\ data' = [data EXCEPT !["X_train"] = TrainX, !["y_train"] = TrainY,
                            !["X_test"] = disk.X_test, !["y_test"] = disk.y_test]
    /\ StepOn
    /\ UNCHANGED <<k_runs, env, heap, disk, fit_inputs, test_reads>>
    /\ UNCHANGED OtherVars

\* print of the four shapes.
PrintShapes ==
    /\ Ready("shapes")
    /\ test_reads' = test_reads \cup ReadBy("shape", {Cur.x, Cur.y})
    /\ StepOn
    /\ UNCHANGED <<k_runs, bound, env, heap, data, disk, fit_inputs>>
    /\ UNCHANGED OtherVars

\* name = Class(...): a new instance, bound to the name.
ConstructModel ==
    /\ Ready("construct")
    /\ heap' = Append(heap, NewInstance(Constructor(Cur.name), 0))
    /\ env' = [env EXCEPT ![Cur.name] = Len(heap) + 1]
    /\ StepOn
    /\ UNCHANGED <<k_runs, bound, data, disk, fit_inputs, test_reads>>
    /\ UNCHANGED OtherVars

\* name.fit(X, y)
FitModel ==
    /\ Ready("fit")
    /\ LET id == env[Cur.name]
           x == FitArg(Cur)
       IN  /\ heap' = [heap EXCEPT ![id] = Fitted(@, Learn(data[x], data[Cur.y]))]
           /\ fit_inputs' = fit_inputs \cup {[step |-> "fit", rows |-> RowsOf(x)]}
           /\ test_reads' = test_reads \cup ReadBy("fit", {x, Cur.y})
    /\ StepOn
    /\ UNCHANGED <<k_runs, bound, env, data, disk>>
    /\ UNCHANGED OtherVars

\* out = name.predict(X); NotFittedError stops the cell.
PredictModel ==
    /\ Ready("predict")
    /\ LET id == env[Cur.name]
       IN  /\ heap' = [heap EXCEPT ![id] = Queried(@, "predict")]
           /\ test_reads' = test_reads \cup ReadBy("predict", {Cur.x})
           /\ IF heap[id].fits = 0
              THEN Abort /\ UNCHANGED bound
              ELSE StepOn /\ bound' = bound \cup {Cur.out}
    /\ UNCHANGED <<k_runs, env, data, disk, fit_inputs>>
    /\ UNCHANGED OtherVars

\* roc_auc_score(y_test, name.predict_proba(X_test)[:,1]); ValueError on
\* one-class labels stops the cell.
ProbaAuc ==
    /\ Ready("proba_auc")
    /\ LET id == env[Cur.name]
       IN  /\ heap' = [heap EXCEPT ![id] = Queried(@, "predict_proba")]
           /\ IF heap[id].fits = 0
              THEN /\ test_reads' = test_reads \cup ReadBy("predict_proba", {Cur.x})
                   /\ Abort
              ELSE /\ test_reads' = test_reads \cup ReadBy("predict_proba", {Cur.x})
                                        \cup ReadBy("metric", {Cur.y})
                   /\ IF OneClass(data[Cur.y]) THEN Abort ELSE StepOn
    /\ UNCHANGED <<k_runs, bound, env, data, disk, fit_inputs>>
    /\ UNCHANGED OtherVars

\* accuracy_score, confusion_matrix, classification_report on y_test.
Metric ==
    /\ Ready("metric")
    /\ test_reads' = test_reads \cup ReadBy("metric", {Cur.y})
    /\ StepOn
    /\ UNCHANGED <<k_runs, bound, env, heap, data, disk, fit_inputs>>
    /\ UNCHANGED OtherVars

\* grid_search = GridSearchCV(...): a new search without best_estimator_.
ConstructSearch ==
    /\ Ready("construct_search")
    /\ bound' = bound \cup {"grid_search"}
    /\ env' = [env EXCEPT !["best_estimator_"] = 0]
    /\ StepOn
    /\ UNCHANGED <<k_runs, heap, data, disk, fit_inputs, test_reads>>
    /\ UNCHANGED OtherVars

\* grid_search.fit(X_train, y_train): the fold fits, then either the refit
\* of the selected configuration or the ValueError when every fit failed.
SearchFit ==
    /\ Ready("search_fit")
    /\ LET X == data[Cur.x]
           folds == {[step |-> "cv_fit", rows |-> FoldTrainRows(X, f)] : f \in 1..cv}
       IN  \/ /\ \E c \in BestChoices :
                    heap' = Append(heap,
                               Fitted(NewInstance(Constructor("rf"), c),
                                      Learn(X, data[Cur.y])))
              /\ env' = [env EXCEPT !["best_estimator_"] = Len(heap) + 1]
              /\ fit_inputs' = fit_inputs \cup folds
                                 \cup {[step |-> "refit", rows |-> RowsOf(Cur.x)]}
              /\ StepOn
           \/ /\ fit_inputs' = fit_inputs \cup folds
              /\ Abort
              /\ UNCHANGED <<heap, env>>
    /\ test_reads' = test_reads \cup ReadBy("search_fit", {Cur.x, Cur.y})
    /\ UNCHANGED <<k_runs, bound, data, disk>>
    /\ UNCHANGED OtherVars

\* print of best_params_ and best_score_.
PrintBest ==
    /\ Ready("print_best")
    /\ StepOn
    /\ UNCHANGED <<k_runs, bound, env, heap, data, disk, fit_inputs, test_reads>>
    /\ UNCHANGED OtherVars

\* best_rf = grid_search.best_estimator_
Alias ==
    /\ Ready("alias")
    /\ env' = [env EXCEPT ![Cur.name] = env["best_estimator_"]]
    /\ StepOn
    /\ UNCHANGED <<k_runs, bound, heap, data, disk, fit_inputs, test_reads>>
    /\ UNCHANGED OtherVars

\* scaler = StandardScaler()
ConstructScaler ==
    /\ Ready("construct_scaler")
    /\ heap' = Append(heap, NewInstance(Constructor(Cur.name), 0))
    /\ env' = [env EXCEPT ![Cur.name] = Len(heap) + 1]
    /\ StepOn
    /\ UNCHANGED <<k_runs, bound, data, disk, fit_inputs, test_reads>>
    /\ UNCHANGED OtherVars

\* X_train_scaled = scaler.fit_transform(X_train)
FitTransform ==
    /\ Ready("fit_transform")
    /\ LET id == env[Cur.name]
           x == FitArg(Cur)
       IN  /\ heap' = [heap EXCEPT ![id] = Fitted(@, Learn(data[x], << >>))]
           /\ fit_inputs' = fit_inputs \cup {[step |-> "scaler_fit", rows |-> RowsOf(x)]}
           /\ test_reads' = test_reads \cup ReadBy("fit_transform", {x})
           /\ data' = [data EXCEPT ![Cur.out] = data[x]]
    /\ bound' = bound \cup {Cur.out}
    /\ StepOn
    /\ UNCHANGED <<k_runs, env, disk>>
    /\ UNCHANGED OtherVars

\* X_test_scaled = scaler.transform(X_test): a scaled copy.
Transform ==
    /\ Ready("transform")
    /\ LET id == env[Cur.name]
       IN  heap' = [heap EXCEPT ![id] = Queried(@, "transform")]
    /\ test_reads' = test_reads \cup ReadBy("transform", {Cur.x})
    /\ data' = [data EXCEPT ![Cur.out] = data[Cur.x]]
    /\ bound' = bound \cup {Cur.out}
    /\ StepOn
    /\ UNCHANGED <<k_runs, env, disk, fit_inputs>>
    /\ UNCHANGED OtherVars

LifeNext ==
    \/ \E c \in Cells : RunCell(c)
    \/ NameError
    \/ Load
    \/ PrintShapes
    \/ ConstructModel
    \/ FitModel
    \/ PredictModel
    \/ ProbaAuc
    \/ Metric
    \/ ConstructSearch
    \/ SearchFit
    \/ PrintBest
    \/ Alias
    \/ ConstructScaler
    \/ FitTransform
    \/ Transform

-----------------------------------------------------------------------------
(* Specifications *)

Init == TunerInit /\ EvalIdle /\ TrainIdle /\ DetIdle /\ LifeIdle
Next == TunerNext
Spec == Init /\ [][Next]_vars

InitEval == TunerIdle /\ EvalInit /\ TrainIdle /\ DetIdle /\ LifeIdle
NextEval == EvalNext
SpecEval == InitEval /\ [][NextEval]_vars

InitTrain == TunerIdle /\ EvalIdle /\ TrainInit /\ DetIdle /\ LifeIdle
NextTrain == TrainNext
SpecTrain == InitTrain /\ [][NextTrain]_vars

InitDet == TunerIdle /\ EvalIdle /\ TrainIdle /\ DetInit /\ LifeIdle
NextDet == DetNext
SpecDet == InitDet /\ [][NextDet]_vars

InitFull == TunerInitFull /\ EvalIdle /\ TrainIdle /\ DetIdle /\ LifeIdle
NextFull == TunerNext
SpecFull == InitFull /\ [][NextFull]_vars

InitLife == TunerIdle /\ EvalIdle /\ TrainIdle /\ DetIdle /\ LifeInit
NextLife == LifeNext
SpecLife == InitLife /\ [][NextLife]_vars

-----------------------------------------------------------------------------
(* Claims about the grid search (specification Spec) *)

FitReturnedBest == pc \in {"selected", "returned"}
Configs == 1..NumConfigs(shape)
FoldsOf(c) == {TaskOf(c, f) : f \in 1..cv}
FitsAll(c) == \A t \in FoldsOf(c) : scores[t].st = "ok"

\* The total of the fold scores of configuration c, summed over its tasks.
RECURSIVE TotalOver(_)
TotalOver(T) ==
    IF T = {} THEN 0
    ELSE LET t == CHOOSE x \in T : TRUE IN scores[t].val + TotalOver(T \ {t})
FoldTotal(c) == TotalOver(FoldsOf(c))

\* C1: when every (configuration, fold) pair is scored, the configuration
\* the search returns has a mean score that no configuration of the grid
\* exceeds, best_score_ is that mean, no configuration earlier in grid
\* enumeration order has the same mean, and with a grid of one configuration
\* the result is that configuration with its mean score.
C1_TunerSelectsBest ==
    (FitReturnedBest /\ \A c \in Configs : FitsAll(c)) =>
        /\ best_index_ \in Configs
        /\ \A c \in Configs : FoldTotal(c) <= FoldTotal(best_index_)
        /\ \A c \in Configs : c < best_index_ => FoldTotal(c) < FoldTotal(best_index_)
        /\ best_score_.st = "ok"
        /\ best_score_.num = FoldTotal(best_index_) /\ best_score_.den = cv
        /\ (NumConfigs(shape) = 1 => best_index_ = 1 /\ best_score_ = Rat(FoldTotal(1), cv))
        /\ (pc = "returned" => best_estimator_.params = ParameterGrid(shape)[best_index_])

\* Two configurations tie on the best mean with different fold scores, and
\* the search has returned.
C1_Witness ==
    /\ pc = "returned"
    /\ \A c \in Configs : FitsAll(c)
    /\ \E c1, c2 \in Configs :
          /\ c1 < c2
          /\ FoldTotal(c1) = FoldTotal(c2)
          /\ \A c \in Configs : FoldTotal(c) <= FoldTotal(c1)
          /\ scores[TaskOf(c1, 1)] # scores[TaskOf(c2, 1)]
          /\ best_index_ = c1

\* C2: when the fit of some configuration threw and another configuration
\* fitted on every fold, the search does not raise, the configuration it
\* returns fitted on every fold, and it is the first configuration of the
\* best mean among those that fitted on every fold.
C2_FailedFitExcluded ==
    ((\E c \in Configs : \E t \in FoldsOf(c) : scores[t].st = "nan")
       /\ (\E c \in Configs : FitsAll(c))) =>
        /\ pc # "raised"
        /\ FitReturnedBest =>
             /\ best_index_ \in Configs
             /\ FitsAll(best_index_)
             /\ best_score_ = Rat(FoldTotal(best_index_), cv)
             /\ \A c \in Configs : FitsAll(c) =>
                   /\ FoldTotal(c) <= FoldTotal(best_index_)
                   /\ (c < best_index_ => FoldTotal(c) < FoldTotal(best_index_))

\* The first configuration threw on a fold, a later one fitted on every fold
\* and was returned.
C2_Witness ==
    /\ pc = "returned"
    /\ NumConfigs(shape) >= 2
    /\ \E t \in FoldsOf(1) : scores[t].st = "nan"
    /\ FitsAll(best_index_)
    /\ best_index_ > 1

\* A sequential run: the tasks are fitted and scored one after the other in
\* grid enumeration order and their outcomes collected in that order.
RECURSIVE SequentialOutcomes(_)
SequentialOutcomes(n) ==
    IF n = 0 THEN <<>> ELSE Append(SequentialOutcomes(n - 1), scores[n])

\* C3: grid_search.fit has a result only when every task has been
\* dispatched and has finished, and its best configuration and best score
\* are those of the sequential run, whatever the order the workers finished.
C3_ParallelEqualsSequential ==
    FitReturnedBest =>
        /\ nextTask > NumTasks(shape)
        /\ \A w \in Workers : running[w] = 0
        /\ ndone = NumTasks(shape)
        /\ \A t \in 1..NumTasks(shape) : scores[t].st # "pending" /\ out[t].st # "pending"
        /\ best_index_ = BestIndex(SequentialOutcomes(NumTasks(shape)), shape)
        /\ best_score_ = BestScore(SequentialOutcomes(NumTasks(shape)), shape)

\* The call returned after a run in which a task finished before an earlier
\* one, with outcomes that differ between tasks.
C3_Witness ==
    /\ pc = "returned"
    /\ reordered
    /\ \E t, u \in 1..NumTasks(shape) : scores[t] # scores[u]

\* C4: no estimator instance is held by two workers, no worker holds the
\* estimator given to GridSearchCV or the refitted one, a worker reads rows
\* of the training split only, and X_train and y_train keep their values.
C4_WorkerIsolation ==
    /\ \A w1, w2 \in Workers :
          (w1 # w2 /\ running[w1] # 0 /\ running[w2] # 0) => owner[w1] # owner[w2]
    /\ \A w \in Workers :
          /\ (running[w] # 0) => (owner[w] >= 1 /\ owner[w] <= NumTasks(shape))
          /\ (running[w] = 0) => owner[w] = -1
          /\ fitInput[w] \subseteq {X_train[i] : i \in DOMAIN X_train}
          /\ best_estimator_.fitted => owner[w] # best_estimator_.instance
    /\ X_train = TrainX
    /\ y_train = TrainY

\* Two workers fit at the same time.
C4_Witness ==
    \E w1, w2 \in Workers :
        /\ w1 # w2
        /\ running[w1] # 0 /\ running[w2] # 0
        /\ fitInput[w1] # {} /\ fitInput[w2] # {}

-----------------------------------------------------------------------------
(* Claims about the Logistic Regression fit cell (specification SpecTrain) *)

RowsMatch == tshape.train_rows = tshape.train_labels
ColsMatch == tshape.test_cols = tshape.train_cols
FitHasRun == tpc \in {"fitted", "predicted", "aborted"}

\* C5 as stated: every data-shape mismatch (row count against label count,
\* or columns missing) aborts the run with no fitted model produced, and
\* non-convergence only warns, the fit returning a model on which predict
\* succeeds.
C5_AsStated ==
    /\ (FitHasRun /\ ~RowsMatch) => (tpc = "aborted" /\ ~model.fitted)
    /\ (tpc \in {"predicted", "aborted"} /\ ~ColsMatch) => (tpc = "aborted" /\ ~model.fitted)
    /\ (FitHasRun /\ RowsMatch /\ ~converges) =>
          (model.fitted /\ "ConvergenceWarning" \in warnings)
    /\ (tpc \in {"predicted", "aborted"} /\ RowsMatch /\ ColsMatch) => tpc = "predicted"

\* C5 (amended): a row count different from the label count aborts the run
\* in fit, with no fitted model; columns missing from the table given to
\* predict abort the run in predict, after the model was fitted;
\* non-convergence only adds a ConvergenceWarning, the model is fitted and
\* predict on a table of matching columns succeeds.
C5_TrainerErrorKinds ==
    /\ (FitHasRun /\ ~RowsMatch) =>
          (tpc = "aborted" /\ ~model.fitted /\ t_pred = "none")
    /\ (tpc \in {"predicted", "aborted"} /\ RowsMatch /\ ~ColsMatch) =>
          (tpc = "aborted" /\ model.fitted /\ t_pred = "none")
    /\ (FitHasRun /\ RowsMatch /\ ~converges) =>
          (model.fitted /\ "ConvergenceWarning" \in warnings)
    /\ (FitHasRun /\ RowsMatch /\ converges) => warnings = {}
    /\ (tpc \in {"predicted", "aborted"} /\ RowsMatch /\ ColsMatch) =>
          (tpc = "predicted" /\ model.fitted /\ t_pred = "labels")

\* The optimizer did not converge, the warning was raised and predict
\* succeeded on the fitted model.
C5_Witness ==
    /\ tpc = "predicted"
    /\ ~converges
    /\ "ConvergenceWarning" \in warnings
    /\ model.fitted
    /\ t_pred = "labels"

-----------------------------------------------------------------------------
(* Claims about the evaluation cells (specification SpecEval) *)

Positives == {i \in Rows(y_test) : y_test[i] = 1}
Negatives == {i \in Rows(y_test) : y_test[i] = 0}
SingleClass == Positives = {} \/ Negatives = {}
CellEnded == estatus \in {"done", "error"}

\* C6: when the AUC computation fails, only it is lost: the cell goes on and
\* the other metrics of the evaluation (accuracy, classification report)
\* are computed and reported.
C6_MetricErrorContained ==
    (CellEnded /\ auc.st = "error") =>
        /\ acc.st = "ok" /\ "accuracy" \in printed
        /\ report # NoMatrix /\ "report" \in printed

\* C7: for a test label vector of a single class the AUC computation ends
\* in an error, whatever the predicted probabilities, and never in a number.
C7_SingleClassAucIsError ==
    (cell = "forest" /\ SingleClass /\ (epc > 3 \/ estatus # "running")) =>
        /\ auc.st = "error"
        /\ estatus = "error"
        /\ "auc" \notin printed

\* roc_auc_score has run on labels that are all of class 1, with predicted
\* probabilities that differ between rows.
C7_Witness ==
    /\ auc.st = "error"
    /\ Len(y_test) >= 2
    /\ Negatives = {}
    /\ \E i, j \in Rows(proba) : proba[i] # proba[j]

TruePositives == Count({i \in Rows(y_test) : y_test[i] = 1 /\ y_pred[i] = 1})
TrueNegatives == Count({i \in Rows(y_test) : y_test[i] = 0 /\ y_pred[i] = 0})

\* C8: the accuracy is (true positives + true negatives) / total samples
\* and lies in [0, 1].
C8_AccuracyIsMatchFraction ==
    (acc.st = "ok") =>
        /\ Len(y_pred) = Len(y_test)
        /\ acc.den = Len(y_test) /\ acc.den > 0
        /\ acc.num = TruePositives + TrueNegatives
        /\ 0 <= acc.num /\ acc.num <= acc.den

\* An accuracy strictly between 0 and 1, with a true positive and a true
\* negative among the matches.
C8_Witness ==
    /\ acc.st = "ok"
    /\ TruePositives > 0 /\ TrueNegatives > 0
    /\ acc.num < acc.den

RECURSIVE SumOf(_, _)
SumOf(f, S) ==
    IF S = {} THEN 0
    ELSE LET x == CHOOSE y \in S : TRUE IN f[x] + SumOf(f, S \ {x})
RowSum(m, i) == SumOf(m[i], DOMAIN m[i])
ColSum(m, j) == SumOf([i \in DOMAIN m |-> m[i][j]], DOMAIN m)
TrueCount(l) == Count({k \in Rows(y_test) : y_test[k] = l})
PredCount(l) == Count({k \in Rows(y_pred) : y_pred[k] = l})
MatrixComputed == cell = "logistic" /\ (epc > 3 \/ estatus = "done")

RankedAbove == Count({pr \in Positives \X Negatives : proba[pr[1]] > proba[pr[2]]})
RankedEqual == Count({pr \in Positives \X Negatives : proba[pr[1]] = proba[pr[2]]})
NumPairs == Count(Positives) * Count(Negatives)
ConstantProba == \A i, j \in Rows(proba) : proba[i] = proba[j]

\* C10 as stated: the AUC is the probability that a random class 1 sample
\* is ranked above a random class 0 sample, and it is 0.5 when every sample
\* gets the same predicted probability.
C10_AsStated ==
    (auc.st = "ok") =>
        /\ RatEq(auc, Rat(RankedAbove, NumPairs))
        /\ ConstantProba => RatEq(auc, Rat(1, 2))

\* C10 (amended): the AUC is the probability that a random class 1 sample
\* is ranked above a random class 0 sample plus half the probability that
\* the two get the same predicted probability; it is 0.5 when every sample
\* gets the same predicted probability.
C10_AucIsRankProbability ==
    (auc.st = "ok") =>
        /\ ~SingleClass
        /\ auc.den > 0
        /\ RatEq(auc, Rat(2 * RankedAbove + RankedEqual, 2 * NumPairs))
        /\ ConstantProba => RatEq(auc, Rat(1, 2))

\* An AUC computed on labels of both classes, with one pair ranked in
\* order and one pair tied.
C10_Witness ==
    /\ auc.st = "ok"
    /\ RankedAbove > 0
    /\ RankedEqual > 0

-----------------------------------------------------------------------------
(* Claims about repeated runs (specification SpecDet) *)

RunEnded(r) == d_pc[r] \in {"evaluated", "aborted"}

-----------------------------------------------------------------------------
(* Claims about the search over the whole grid (specification SpecFull) *)

Values(list) == {list[i] : i \in DOMAIN list}
AllTasks == 1..NumTasks(shape)
AllScored == \A t \in AllTasks : nfits[t] = 1 /\ scores[t].st # "pending"

\* C12: the grid is the Cartesian product of the value lists, 2 x 3 x 3 = 18
\* configurations; no (configuration, fold) pair is fitted and scored twice
\* and, once the search has its result, each of the 18 x 3 pairs was fitted
\* and scored exactly once; the refit happens at most once, only after
\* every pair was scored, and when grid_search.fit has returned the refit
\* has happened once and best_estimator_ is fitted on all training rows
\* with best_params_.
C12_GridCompleteThenRefit ==
    /\ NumConfigs(shape) = 18
    /\ NumTasks(shape) = 18 * 3
    /\ LET grid == ParameterGrid(shape)
           product == [ max_depth        : Values(param_grid.max_depth),
                        min_samples_leaf : Values(param_grid.min_samples_leaf),
                        n_estimators     : Values(param_grid.n_estimators) ]
       IN  /\ Len(grid) = 18
           /\ Cardinality(product) = 18
           /\ {grid[i] : i \in DOMAIN grid} = product
    /\ \A t \in AllTasks : nfits[t] <= 1
    /\ FitReturnedBest => AllScored
    /\ nrefits <= 1
    /\ (nrefits = 1) <=> (pc = "returned")
    /\ best_estimator_.fitted <=> (pc = "returned")
    /\ (pc = "returned") =>
          /\ AllScored
          /\ best_index_ \in Configs
          /\ best_estimator_.params = best_params_
          /\ best_estimator_.rows = {X_train[i] : i \in DOMAIN X_train}
          /\ Cardinality(best_estimator_.rows) = NumTrainRows
          /\ FitsAll(best_index_)
          /\ \A c \in Configs : FitsAll(c) => FoldTotal(c) <= FoldTotal(best_index_)

\* grid_search.fit has returned on the whole grid after workers finished
\* out of order, and the best configuration is not the first of the grid.
C12_Witness ==
    /\ pc = "returned"
    /\ NumConfigs(shape) = 18
    /\ reordered
    /\ nrefits = 1
    /\ best_index_ > 1

-----------------------------------------------------------------------------
(* Claims about the notebook kernel (specification SpecLife) *)

ModelInstances == {i \in DOMAIN heap : heap[i].cls # "StandardScaler"}
QueryOps == {"predict", "predict_proba"}
Constructed == {"rf", "xgb", "model", "model_improved"}
AtFitOf(i) == k_cell # "none" /\ Cur.op = "fit" /\ env[Cur.name] = i

LifecycleOk(i) ==
    LET inst == heap[i]
        log == inst.log
    IN  /\ log[1].op = "construct"
        /\ \E n \in Constructed :
              inst.cls = Constructor(n).cls /\ inst.params.base = Constructor(n).base
        /\ inst.fits <= 1
        /\ inst.fits = Cardinality({k \in DOMAIN log : log[k].op = "fit"})
        /\ \A k \in DOMAIN log : log[k].op = "fit" => k = 2
        /\ \A k \in DOMAIN log :
              log[k].op \in QueryOps =>
                 /\ k > 2
                 /\ log[2].op = "fit"
                 /\ log[k].learned = log[2].learned
        /\ inst.fits = 1 =>
              /\ inst.learned = log[2].learned
              /\ inst.learned = Learn(TrainX, TrainY)
              /\ inst.learned.rows = TrainRows
        /\ inst.fits = 0 => inst.learned = NoLearned /\ Len(log) = 1
        /\ (inst.fits = 0 /\ inst.loaded) => AtFitOf(i)

\* C13: every model instance (those bound to rf, best_rf, xgb, model and
\* model_improved) was constructed with a configuration, is fitted at most
\* once and exactly once as soon as its fit statement has run, on the
\* training split; each predict / predict_proba on it comes after that fit,
\* and after any number of queries the learned parameters are those the fit
\* produced.
C13_ModelLifecycle ==
    /\ \A i \in ModelInstances : LifecycleOk(i)
    /\ \A n \in ModelNames : env[n] # 0 => env[n] \in ModelInstances

\* best_rf, the refitted estimator of the search, has answered predict and
\* predict_proba, and the Random Forest or Logistic Regression cell has
\* fitted an instance of its own.
C13_Witness ==
    \/ /\ env["best_rf"] # 0
       /\ Len(heap[env["best_rf"]].log) >= 4
       /\ heap[env["best_rf"]].fits = 1
    \/ /\ env["model"] # 0 /\ env["rf"] # 0
       /\ heap[env["model"]].fits = 1 /\ Len(heap[env["model"]].log) >= 3
       /\ heap[env["rf"]].fits = 1 /\ Len(heap[env["rf"]].log) >= 4

FittingSteps == {"fit", "cv_fit", "refit", "scaler_fit"}
FitsAvoidTest ==
    /\ TrainRows \cap TestRows = {}
    /\ \A fi \in fit_inputs :
          /\ fi.step \in FittingSteps
          /\ fi.rows \cap TestRows = {}
          /\ fi.rows \subseteq TrainRows
    /\ \A i \in DOMAIN heap : heap[i].learned.rows \cap TestRows = {}
TestUnchanged ==
    /\ disk.X_test = TestX
    /\ disk.y_test \in TestLabels
    /\ "X_test" \in bound => data["X_test"] = disk.X_test
    /\ "y_test" \in bound => data["y_test"] = disk.y_test
ReadersWithin(S) == \A r \in test_reads : r.by \in S

\* C14 as stated: no fitting step takes the test split, X_test and y_test
\* are read only by predict, predict_proba, scaler.transform and the metric
\* functions, and the test split is unchanged.
C14_AsStated ==
    /\ FitsAvoidTest
    /\ ReadersWithin({"predict", "predict_proba", "transform", "metric"})
    /\ TestUnchanged

\* C14 (amended): no fitting step (model fit, the fold fits and the refit of
\* the grid search, the scaler's fit) takes a row of the test split; X_test
\* and y_test are read only by predict, predict_proba, scaler.transform, the
\* metric functions and the print of their shapes in the loading cell; the
\* test split is unchanged.
C14_TestSplitIsolated ==
    /\ FitsAvoidTest
    /\ ReadersWithin({"predict", "predict_proba", "transform", "metric", "shape"})
    /\ TestUnchanged

\* The scaler and a model have been fitted, the search has run its fold
\* fits, and the test split has been read by transform, predict and a metric.
C14_Witness ==
    /\ \E fi \in fit_inputs : fi.step \in {"scaler_fit", "refit"}
    /\ \E fi \in fit_inputs : fi.step \in {"fit", "cv_fit"}
    /\ \E r \in test_reads : r.by \in {"transform", "predict_proba"}
    /\ \E r \in test_reads : r.by = "metric" /\ r.name = "y_test"

=============================================================================
